---- MODULE Spec2Model ----
(***************************************************************************)
(* Sensor-monitoring state machine of main/cpp_span_visit_concept.cpp:     *)
(* the StateMachine class (variant state, ring buffer of readings), its    *)
(* StateMachineManager and the driver threads; and the event-driven        *)
(* variant FSM of main/cpp_variant.cpp.                                    *)
(*                                                                         *)
(* A float is modelled as an integer number of 1/Scale units.  Scale is a  *)
(* multiple of every divisor the code can use (1..10) and of 100, so every *)
(* reading used below and every average of them is represented exactly;    *)
(* the readings are far enough from the thresholds that float rounding     *)
(* does not change the outcome of any comparison.                          *)
(***************************************************************************)
EXTENDS Integers, Sequences, FiniteSets, TLC

(* Fields of the StateMachine objects, one entry per object. *)
VARIABLES current_state_, current_id_, sensor_buffer_, buffer_index_

(* Per StateMachine object, for stating properties:                        *)
(*   visited  the std::visit of the last process_sensors: the alternative  *)
(*            visited, as its in-place updates left it, and the arguments  *)
(*            of the transition_to calls made, in order                    *)
(*   ret      what the last process_sensors / get_buffer_stats returned    *)
(*   pushed   the readings written to the buffer so far, in call order     *)
(*   trace    current_state_ as each process_sensors call left it          *)
VARIABLES visited, ret, pushed, trace

(* Driver threads: the position of each thread, the status line of the     *)
(* last update() of each manager, whether the last check of a monitor      *)
(* thread logged CRITICAL ALERT STATE, and the threads that have called    *)
(* into each manager.                                                      *)
VARIABLES pc, status, warned, accessed

smVars == <<current_state_, current_id_, sensor_buffer_, buffer_index_,
            visited, pushed, trace>>

(* The readings the sources of each manager returned in its last update(),  *)
(* recorded where two runs of a manager are compared.                      *)
VARIABLES sources

(* The variant FSM of main/cpp_variant.cpp: the fields of its StateMachine  *)
(* and the events dispatched so far.                                        *)
VARIABLES state_, sensor_data_, events

(* The number of bits of size_t, the type of buffer_index_, in the build.    *)
VARIABLES size_bits

threadVars == <<pc, status, warned, accessed>>

fsmVars == <<state_, sensor_data_, events>>

otherVars == <<sources, fsmVars, size_bits>>

vars == <<smVars, ret, threadVars, otherVars>>

-----------------------------------------------------------------------------
(* Bounds of the model *)

\* number of process_sensors calls explored on one StateMachine
MaxCalls == 9

\* update() calls explored on each of the two compared runs of SpecPair
MaxPairTicks == 4

\* events dispatched to the variant FSM of cpp_variant.cpp
MaxEvents == 4

\* process_sensors calls explored with NaN among the readings
MaxNaNCalls == 6

\* update() calls explored on the single manager of SpecManager
MaxManagerTicks == 12

\* process_sensors calls explored with the narrow size_t of SpecWrap: up to
\* and including the call whose increment wraps buffer_index_
MaxWrapCalls == 16

\* number of calls explored with the two-valued readings of SpecRing
MaxRingCalls == 12

\* update() calls explored per state_monitor_thread
MaxTicks == 2

\* update() calls explored in sensor_processor_thread
MaxProcUpdates == 4

-----------------------------------------------------------------------------
(* float *)

Scale == 2520 * 100

\* the float NaN: unordered with everything, absorbing in + and /
NaN == 0 - 2^30

F(units, hundredths) == units * Scale + hundredths * (Scale \div 100)

IsNaN(x) == x = NaN

\* operator> on float
FGt(a, b) == ~IsNaN(a) /\ ~IsNaN(b) /\ a > b

\* FLt as a total order that places NaN below every number
FLtTotal(a, b) == a < b

\* operator< on float
FLt(a, b) == ~IsNaN(a) /\ ~IsNaN(b) /\ a < b

\* operator+ on float
FAdd(a, b) == IF IsNaN(a) \/ IsNaN(b) THEN NaN ELSE a + b

\* float / size_t; 0/0 is NaN
FDiv(a, n) == IF IsNaN(a) \/ n = 0 THEN NaN ELSE a \div n

-----------------------------------------------------------------------------
(* State variant *)

StateIdOf == [Idle |-> "IDLE", Monitoring |-> "MONITORING",
              Alert |-> "ALERT", Calibrating |-> "CALIBRATING"]

IdleState == [tag |-> "Idle"]

MonitoringState(avg, n) ==
    [tag |-> "Monitoring", average_value |-> avg, sample_count |-> n]

AlertState(msg, thr) == [tag |-> "Alert", message |-> msg, threshold |-> thr]

CalibratingState(ref, step) ==
    [tag |-> "Calibrating", reference_value |-> ref, calibration_step |-> step]

-----------------------------------------------------------------------------
(* StateMachine *)

\* std::array<float, 10>::size()
BufferSize == 10

Slots == 0 .. (BufferSize - 1)

\* std::numeric_limits<float>::max() and lowest(): beyond every reading
FltMax == 2^30 - 1

FltLowest == 0 - FltMax

\* std::min(a, b) on size_t
Min(a, b) == IF b < a THEN b ELSE a

\* std::min(a, b) on float: (b < a) ? b : a
FMin(a, b) == IF FLt(b, a) THEN b ELSE a

\* std::max(a, b) on float: (a < b) ? b : a
FMax(a, b) == IF FLt(a, b) THEN b ELSE a

\* std::min(buffer_index_, sensor_buffer_.size())
ActiveCount(idx) == Min(idx, BufferSize)

RECURSIVE SumFirst(_, _)
\* float sum = 0; for (val : sensor_buffer_ | take(n)) sum += val;
SumFirst(buf, n) ==
    IF n = 0 THEN 0 ELSE FAdd(SumFirst(buf, n - 1), buf[n - 1])

\* The bits of size_t where the wrap of buffer_index_ is out of reach.  On
\* the ESP32 size_t has 32 bits; 30 is the widest counter whose modulus the
\* model checker's integers hold, and no run explored with it makes more
\* than a few dozen calls.
WideBits == 30

\* The bits of size_t scaled down so that the wrap of buffer_index_ is
\* reached: 2^4 leaves the same remainder modulo the buffer size, 6, as 2^32
\* and 2^64, and is larger than the buffer size.
NarrowBits == 4

\* buffer_index_++ on a size_t: unsigned arithmetic modulo 2^bits
IncIndex(idx) == (idx + 1) % (2 ^ size_bits)

\* WriteSlot with the index clamped to the last slot instead of wrapped
WriteSlotClamped(idx) == Min(idx, BufferSize - 1)

\* the slot process_sensors writes
WriteSlot(idx) == idx % BufferSize

\* PushBuffer storing the last reading of the pack instead of the first
PushBufferLast(buf, idx, readings) ==
    IF Len(readings) > 0
    THEN [buffer |-> [buf EXCEPT ![WriteSlot(idx)] = readings[Len(readings)]],
          index  |-> IncIndex(idx)]
    ELSE [buffer |-> buf, index |-> idx]

\* the buffer update at the head of process_sensors
PushBuffer(buf, idx, readings) ==
    IF Len(readings) > 0
    THEN [buffer |-> [buf EXCEPT ![WriteSlot(idx)] = readings[1]],
          index  |-> IncIndex(idx)]
    ELSE [buffer |-> buf, index |-> idx]

\* BufferAverage dividing by buffer_index_ instead of the active count
BufferAverageByIndex(buf, idx) == FDiv(SumFirst(buf, ActiveCount(idx)), idx)

\* the average the Monitoring branch computes
BufferAverage(buf, idx) ==
    FDiv(SumFirst(buf, ActiveCount(idx)), ActiveCount(idx))

\* VisitUpdate without state.calibration_step++
VisitUpdateNoStep(state, buf, idx) ==
    CASE state.tag = "Idle" -> state
      [] state.tag = "Monitoring" ->
            [state EXCEPT !.sample_count = @ + 1,
                          !.average_value = BufferAverage(buf, idx)]
      [] state.tag = "Alert" -> state
      [] state.tag = "Calibrating" -> state

\* The body of the visitor up to (not including) a transition_to call: what
\* the alternative referenced by `state` holds after the in-place updates.
VisitUpdate(state, buf, idx) ==
    CASE state.tag = "Idle" -> state
      [] state.tag = "Monitoring" ->
            [state EXCEPT !.sample_count = @ + 1,
                          !.average_value = BufferAverage(buf, idx)]
      [] state.tag = "Alert" -> state
      [] state.tag = "Calibrating" ->
            [state EXCEPT !.calibration_step = @ + 1]

\* IdleLeaves with >= for >
IdleLeavesGe(readings) ==
    Len(readings) > 0 /\ ~IsNaN(readings[1]) /\ readings[1] >= F(20, 0)

\* if (!readings_span.empty() && readings_span[0] > 20.0f)
IdleLeaves(readings) == Len(readings) > 0 /\ FGt(readings[1], F(20, 0))

\* if (state.average_value > 30.0f)
MonitoringLeaves(state) == FGt(state.average_value, F(30, 0))

\* AlertLeaves with <= for <
AlertLeavesLe(readings) ==
    Len(readings) > 0 /\ ~IsNaN(readings[1]) /\ readings[1] <= F(25, 0)

\* if (!readings_span.empty() && readings_span[0] < 25.0f)
AlertLeaves(readings) == Len(readings) > 0 /\ FLt(readings[1], F(25, 0))

\* CalibratingLeaves with the limit 6 for 5
CalibratingLeavesLate(state) == state.calibration_step > 6

\* CalibratingLeaves with >= for >
CalibratingLeavesGe(state) == state.calibration_step >= 5

\* if (state.calibration_step > 5)
CalibratingLeaves(state) == state.calibration_step > 5

\* The argument of the transition_to call the visitor makes, or <<>> when
\* it makes none.  `state` is the visited alternative after VisitUpdate.
VisitTransition(state, readings) ==
    CASE state.tag = "Idle" ->
            IF IdleLeaves(readings)
            THEN <<MonitoringState(readings[1], 1)>> ELSE <<>>
      [] state.tag = "Monitoring" ->
            IF MonitoringLeaves(state)
            THEN <<AlertState("Temperature High", F(30, 0))>> ELSE <<>>
      [] state.tag = "Alert" ->
            IF AlertLeaves(readings)
            THEN <<CalibratingState(F(22, 50), 1)>> ELSE <<>>
      [] state.tag = "Calibrating" ->
            IF CalibratingLeaves(state) THEN <<IdleState>> ELSE <<>>

\* Visit that dispatches again on the variant a transition_to installed
VisitCascade(state, buf, idx, readings) ==
    LET upd1 == VisitUpdate(state, buf, idx)
        tr1  == VisitTransition(upd1, readings)
    IN  IF Len(tr1) = 0
        THEN [updated |-> upd1, transitions |-> tr1]
        ELSE LET upd2 == VisitUpdate(tr1[1], buf, idx)
             IN  [updated |-> upd2,
                  transitions |-> tr1 \o VisitTransition(upd2, readings)]

\* std::visit(lambda, current_state_): one alternative is visited, the one
\* current_state_ holds when the call is made.  Returns the alternative as
\* updated in place and the transition_to calls made, in order.
Visit(state, buf, idx, readings) ==
    LET upd == VisitUpdate(state, buf, idx)
    IN  [updated |-> upd, transitions |-> VisitTransition(upd, readings)]

\* TransitionTo without the assignment to current_id_, which keeps its
\* initial value
TransitionToKeepId(new_state) ==
    [state |-> new_state, id |-> "IDLE"]

\* StateMachine::transition_to(new_state): the fields it writes
TransitionTo(new_state) ==
    [state |-> new_state, id |-> StateIdOf[new_state.tag]]

RECURSIVE MinMaxFirst(_, _)
\* the min/max loop of get_buffer_stats over the first n slots
MinMaxFirst(buf, n) ==
    IF n = 0
    THEN [min |-> FltMax, max |-> FltLowest]
    ELSE LET r == MinMaxFirst(buf, n - 1)
         IN  [min |-> FMin(r.min, buf[n - 1]), max |-> FMax(r.max, buf[n - 1])]

\* GetBufferStats with the loop running over the whole array
GetBufferStatsAllSlots(buf, idx) ==
    IF idx = 0
    THEN [kind |-> "value", min |-> 0, max |-> 0]
    ELSE LET r == MinMaxFirst(buf, BufferSize)
         IN  [kind |-> "value", min |-> r.min, max |-> r.max]

\* StateMachine::get_buffer_stats(): the outcome of a call
GetBufferStats(buf, idx) ==
    IF idx = 0
    THEN [kind |-> "value", min |-> 0, max |-> 0]
    ELSE LET r == MinMaxFirst(buf, ActiveCount(idx))
         IN  [kind |-> "value", min |-> r.min, max |-> r.max]

\* a freshly constructed StateMachine
NewMachine ==
    [current_state_ |-> IdleState, current_id_ |-> "IDLE",
     sensor_buffer_ |-> [i \in Slots |-> 0], buffer_index_ |-> 0]

\* What StateMachine::process_sensors(sensors...) makes of the fields `mach`
\* of a StateMachine, `readings` being the values sensors.read()... returned:
\* the fields after the call, and what the visitor did.
ProcessSensorsOn(mach, readings) ==
    LET p == PushBuffer(mach.sensor_buffer_, mach.buffer_index_, readings)
        v == Visit(mach.current_state_, p.buffer, p.index, readings)
        final == IF Len(v.transitions) = 0
                 THEN [state |-> v.updated, id |-> mach.current_id_]
                 ELSE TransitionTo(v.transitions[Len(v.transitions)])
    IN  [machine |-> [current_state_ |-> final.state, current_id_ |-> final.id,
                      sensor_buffer_ |-> p.buffer, buffer_index_ |-> p.index],
         visited |-> v]

\* StateMachine::process_sensors(sensors...) on object m, `readings` being the
\* values sensors.read()... returned
ProcessSensors(m, readings) ==
    LET r == ProcessSensorsOn([current_state_ |-> current_state_[m],
                               current_id_ |-> current_id_[m],
                               sensor_buffer_ |-> sensor_buffer_[m],
                               buffer_index_ |-> buffer_index_[m]], readings)
    IN  /\ sensor_buffer_' = [sensor_buffer_ EXCEPT ![m] = r.machine.sensor_buffer_]
        /\ buffer_index_' = [buffer_index_ EXCEPT ![m] = r.machine.buffer_index_]
        /\ visited' = [visited EXCEPT ![m] = r.visited]
        /\ current_state_' = [current_state_ EXCEPT ![m] = r.machine.current_state_]
        /\ current_id_' = [current_id_ EXCEPT ![m] = r.machine.current_id_]
        /\ pushed' = [pushed EXCEPT ![m] =
                         IF Len(readings) > 0 THEN Append(@, readings[1]) ELSE @]
        /\ trace' = [trace EXCEPT ![m] = Append(@, r.machine.current_state_)]

-----------------------------------------------------------------------------
(* A single StateMachine driven through its public interface *)

\* the one StateMachine object of Spec and SpecRing
SM == "sm"

\* readings offered to process_sensors: at the Idle threshold, at the Alert
\* threshold, and above the Monitoring threshold
Readings == {F(20, 0), F(25, 0), F(40, 0)}

InitMachines(objs) ==
    /\ current_state_ = [m \in objs |-> NewMachine.current_state_]
    /\ current_id_ = [m \in objs |-> NewMachine.current_id_]
    /\ sensor_buffer_ = [m \in objs |-> NewMachine.sensor_buffer_]
    /\ buffer_index_ = [m \in objs |-> NewMachine.buffer_index_]
    /\ visited = [m \in objs |->
                     [updated |-> NewMachine.current_state_, transitions |-> <<>>]]
    /\ ret = [m \in objs |-> [call |-> "none"]]
    /\ pushed = [m \in objs |-> <<>>]
    /\ trace = [m \in objs |-> <<>>]

\* size_t wide, no variant FSM and no compared runs
InitOther ==
    /\ size_bits = WideBits
    /\ sources = <<>>
    /\ state_ = <<>>
    /\ sensor_data_ = <<>>
    /\ events = <<>>

Init ==
    /\ InitMachines({SM})
    /\ pc = <<>>
    /\ status = <<>>
    /\ warned = <<>>
    /\ accessed = <<>>
    /\ InitOther

\* a caller invokes process_sensors with one sensor returning v
CallProcessSensors(v) ==
    /\ ProcessSensors(SM, <<v>>)
    /\ ret' = [ret EXCEPT ![SM] = [call |-> "process_sensors"]]
    /\ UNCHANGED <<threadVars, otherVars>>

\* a caller invokes get_buffer_stats
CallGetBufferStats ==
    /\ ret' = [ret EXCEPT ![SM] =
                  [call |-> "get_buffer_stats",
                   result |-> GetBufferStats(sensor_buffer_[SM], buffer_index_[SM])]]
    /\ UNCHANGED <<smVars, threadVars, otherVars>>

Next ==
    \/ \E v \in Readings :
          /\ Len(trace[SM]) < MaxCalls
          /\ CallProcessSensors(v)
    \/ CallGetBufferStats

Spec == Init /\ [][Next]_vars

\* readings of SpecRing: below and above every threshold
RingReadings == {F(20, 0), F(40, 0)}

NextRing ==
    \/ \E v \in RingReadings :
          /\ Len(trace[SM]) < MaxRingCalls
          /\ CallProcessSensors(v)
    \/ CallGetBufferStats

\* the same machine driven long enough for the buffer to wrap
SpecRing == Init /\ [][NextRing]_vars

InitWrap ==
    /\ InitMachines({SM})
    /\ pc = <<>>
    /\ status = <<>>
    /\ warned = <<>>
    /\ accessed = <<>>
    /\ size_bits = NarrowBits
    /\ sources = <<>>
    /\ state_ = <<>>
    /\ sensor_data_ = <<>>
    /\ events = <<>>

NextWrap ==
    \E v \in RingReadings :
        /\ Len(trace[SM]) < MaxWrapCalls
        /\ CallProcessSensors(v)

\* the same machine in a build whose size_t is narrow enough for
\* buffer_index_ to wrap within the calls explored
SpecWrap == InitWrap /\ [][NextWrap]_vars

\* readings of SpecNaN: NaN, and one below and one above every threshold
NaNReadings == {NaN, F(20, 0), F(40, 0)}

NextNaN ==
    \/ \E v \in NaNReadings :
          /\ Len(trace[SM]) < MaxNaNCalls
          /\ CallProcessSensors(v)
    \/ CallGetBufferStats

\* the same machine with a sensor that may return NaN
SpecNaN == Init /\ [][NextNaN]_vars

-----------------------------------------------------------------------------
(* StateMachineManager and the driver threads of app_main *)

\* the values of rand() % 100 explored: the smallest and the largest
RandSteps == {0, 99}

\* TemperatureRead with a step of 0.1f
TemperatureReadTenths(r) == F(23, 50) + r * F(0, 10)

\* TemperatureSensor::read(): 23.5f + (rand() % 100) * 0.01f
TemperatureRead(r) == F(23, 50) + r * F(0, 1)

\* HumiditySensor::read(): 45.0f + (rand() % 100) * 0.02f
HumidityRead(r) == F(45, 0) + r * F(0, 2)

\* PressureSensor::read(): 1013.25f + (rand() % 100) * 0.05f
PressureRead(r) == F(1013, 25) + r * F(0, 5)

\* printf / std::format of a float with `digits` decimals: the number of
\* 10^-digits units nearest to x
Fmt(x, digits) ==
    LET unit == Scale \div (10 ^ digits)
    IN  IF IsNaN(x) THEN NaN
        ELSE IF x >= 0 THEN (x + unit \div 2) \div unit
        ELSE 0 - ((unit \div 2 - x) \div unit)

\* StateMachine::get_state_info(): the format string and its arguments
GetStateInfo(state) ==
    CASE state.tag = "Idle" -> <<"Idle - Waiting for commands">>
      [] state.tag = "Monitoring" ->
            <<"Monitoring - Avg: {:.2f}, Samples: {}",
              Fmt(state.average_value, 2), state.sample_count>>
      [] state.tag = "Alert" ->
            <<"ALERT: {} (Threshold: {:.1f})",
              state.message, Fmt(state.threshold, 1)>>
      [] state.tag = "Calibrating" ->
            <<"Calibrating - Ref: {:.2f}, Step: {}",
              Fmt(state.reference_value, 2), state.calibration_step>>

MonitorThreads == {"state_monitor_thread_1", "state_monitor_thread_2"}

ProcessorThread == "sensor_processor_thread"

Threads == MonitorThreads \cup {ProcessorThread}

\* state_monitor_thread with `manager` declared static: one object for both
\* threads
LocalManagerStatic(t) == "manager_static"

\* the StateMachineManager `manager` local to state_monitor_thread(thread_id)
LocalManager(t) ==
    IF t = "state_monitor_thread_1" THEN "manager_1" ELSE "manager_2"

\* std::vector<StateMachineManager> managers(3) of sensor_processor_thread
VectorManagers == <<"managers_0", "managers_1", "managers_2">>

\* every StateMachineManager object the threads construct
Managers ==
    {LocalManager(t) : t \in MonitorThreads}
        \cup {VectorManagers[i] : i \in 1 .. Len(VectorManagers)}

\* UpdateWith taking the statistics and the state description before
\* process_sensors runs
UpdateWithReportFirst(t, m, readings) ==
    /\ ProcessSensors(m, readings)
    /\ LET st == GetBufferStats(sensor_buffer_[m], buffer_index_[m])
       IN  /\ ret' = [ret EXCEPT ![m] = [call |-> "get_buffer_stats", result |-> st]]
           /\ status' = [status EXCEPT ![m] =
                  [state   |-> GetStateInfo(current_state_[m]),
                   samples |-> Min(buffer_index_[m], 10),
                   min     |-> Fmt(st.min, 1),
                   max     |-> Fmt(st.max, 1)]]
    /\ accessed' = [accessed EXCEPT ![m] = @ \cup {t}]

\* The body of StateMachineManager::update() on manager m called by thread t,
\* `readings` being what temp_sensor_, humidity_sensor_ and pressure_sensor_
\* return, each read once
UpdateWith(t, m, readings) ==
    /\ ProcessSensors(m, readings)
    /\ LET st == GetBufferStats(sensor_buffer_'[m], buffer_index_'[m])
       IN  /\ ret' = [ret EXCEPT ![m] = [call |-> "get_buffer_stats", result |-> st]]
           /\ status' = [status EXCEPT ![m] =
                  [state   |-> GetStateInfo(current_state_'[m]),
                   samples |-> Min(buffer_index_'[m], 10),
                   min     |-> Fmt(st.min, 1),
                   max     |-> Fmt(st.max, 1)]]
    /\ accessed' = [accessed EXCEPT ![m] = @ \cup {t}]

\* StateMachineManager::update() on manager m called by thread t, the three
\* sensors drawing rt, rh, rp from rand() % 100
Update(t, m, rt, rh, rp) ==
    UpdateWith(t, m, <<TemperatureRead(rt), HumidityRead(rh), PressureRead(rp)>>)

\* state_monitor_thread: if (manager.get_state_id() == StateId::ALERT) log
MonitorCheck(t) ==
    /\ pc[t].at = "check"
    /\ warned' = [warned EXCEPT ![t] = (current_id_[LocalManager(t)] = "ALERT")]
    /\ accessed' = [accessed EXCEPT ![LocalManager(t)] = @ \cup {t}]
    /\ pc' = [pc EXCEPT ![t] = [at |-> "update"]]
    /\ UNCHANGED <<smVars, ret, status, otherVars>>

\* state_monitor_thread: manager.update(); sleep_for(STATE_UPDATE_INTERVAL)
MonitorUpdate(t) ==
    /\ pc[t].at = "update"
    /\ \E rt, rh, rp \in RandSteps : Update(t, LocalManager(t), rt, rh, rp)
    /\ pc' = [pc EXCEPT ![t] = [at |-> "check"]]
    /\ UNCHANGED <<warned, otherVars>>

\* sensor_processor_thread: one iteration of the initialisation loop
ProcessorInit ==
    LET i == pc[ProcessorThread].i
    IN  /\ pc[ProcessorThread].at = "init"
        /\ \E rt, rh, rp \in RandSteps :
              Update(ProcessorThread, VectorManagers[i + 1], rt, rh, rp)
        /\ pc' = [pc EXCEPT ![ProcessorThread] =
                     IF i + 1 < Len(VectorManagers)
                     THEN [at |-> "init", i |-> i + 1]
                     ELSE [at |-> "loop", i |-> 0]]
        /\ UNCHANGED <<warned, otherVars>>

\* ProcessorLoop walking the vector from its last manager to its first
ProcessorLoopReversed ==
    LET i == pc[ProcessorThread].i
    IN  /\ pc[ProcessorThread].at = "loop"
        /\ \E rt, rh, rp \in RandSteps :
              Update(ProcessorThread, VectorManagers[Len(VectorManagers) - i],
                     rt, rh, rp)
        /\ pc' = [pc EXCEPT ![ProcessorThread] =
                     [at |-> "loop", i |-> (i + 1) % Len(VectorManagers)]]
        /\ UNCHANGED <<warned, otherVars>>

\* sensor_processor_thread: one iteration of the for loop inside while (true);
\* the sleep_for(1s) follows the last manager
ProcessorLoop ==
    LET i == pc[ProcessorThread].i
    IN  /\ pc[ProcessorThread].at = "loop"
        /\ \E rt, rh, rp \in RandSteps :
              Update(ProcessorThread, VectorManagers[i + 1], rt, rh, rp)
        /\ pc' = [pc EXCEPT ![ProcessorThread] =
                     [at |-> "loop", i |-> (i + 1) % Len(VectorManagers)]]
        /\ UNCHANGED <<warned, otherVars>>

\* update() calls sensor_processor_thread has made
ProcessorUpdates ==
    Len(trace[VectorManagers[1]]) + Len(trace[VectorManagers[2]])
        + Len(trace[VectorManagers[3]])

InitThreads ==
    /\ InitMachines(Managers)
    /\ pc = [t \in Threads |->
                IF t = ProcessorThread THEN [at |-> "init", i |-> 0]
                                       ELSE [at |-> "check"]]
    /\ status = [m \in Managers |-> [state |-> <<>>]]
    /\ warned = [t \in MonitorThreads |-> FALSE]
    /\ accessed = [m \in Managers |-> {}]
    /\ InitOther

NextThreads ==
    \/ \E t \in MonitorThreads : MonitorCheck(t)
    \/ \E t \in MonitorThreads :
          /\ Len(trace[LocalManager(t)]) < MaxTicks
          /\ MonitorUpdate(t)
    \/ /\ ProcessorUpdates < MaxProcUpdates
       /\ ProcessorInit
    \/ /\ ProcessorUpdates < MaxProcUpdates
       /\ ProcessorLoop

\* app_main's three driver threads, interleaved
SpecThreads == InitThreads /\ [][NextThreads]_vars

\* state_monitor_thread t moves on to its next statement, as the scheduler
\* sees it: ready to run unless it has made all the updates explored
MonitorAdvance(t) ==
    /\ pc[t].at = "update" => Len(trace[LocalManager(t)]) < MaxTicks
    /\ pc' = [pc EXCEPT ![t] =
                 [at |-> IF pc[t].at = "check" THEN "update" ELSE "check"]]

\* sensor_processor_thread moves on to its next loop iteration, as the
\* scheduler sees it
ProcessorAdvance ==
    LET i == pc[ProcessorThread].i
    IN  /\ ProcessorUpdates < MaxProcUpdates
        /\ pc' = [pc EXCEPT ![ProcessorThread] =
                     IF pc[ProcessorThread].at = "init" /\ i + 1 < Len(VectorManagers)
                     THEN [at |-> "init", i |-> i + 1]
                     ELSE [at |-> "loop", i |-> (i + 1) % Len(VectorManagers)]]

\* Each driver thread is a detached std::jthread that sleeps between its
\* updates, so the scheduler runs every thread that is ready to run: a
\* thread that stays ready advances.
SpecThreadsFair ==
    /\ InitThreads
    /\ [][NextThreads]_vars
    /\ \A t \in MonitorThreads : WF_pc(MonitorAdvance(t))
    /\ WF_pc(ProcessorAdvance)

-----------------------------------------------------------------------------
(* One state_monitor_thread alone, with the manager it declares, for long   *)
(* enough that the manager's buffer wraps                                   *)

ManagerCaller == "state_monitor_thread_1"

OneManager == LocalManager(ManagerCaller)

InitManager ==
    /\ InitMachines({OneManager})
    /\ pc = [t \in {ManagerCaller} |-> [at |-> "check"]]
    /\ status = [m \in {OneManager} |-> [state |-> <<>>]]
    /\ warned = [t \in {ManagerCaller} |-> FALSE]
    /\ accessed = [m \in {OneManager} |-> {}]
    /\ InitOther

NextManager ==
    \/ MonitorCheck(ManagerCaller)
    \/ /\ Len(trace[OneManager]) < MaxManagerTicks
       /\ MonitorUpdate(ManagerCaller)

SpecManager == InitManager /\ [][NextManager]_vars

-----------------------------------------------------------------------------
(* Two runs of a StateMachineManager whose first source returns the same    *)
(* reading in both runs, tick by tick, while the second and third sources   *)
(* return unrelated values.  The sources return arbitrary values here, so   *)
(* that every variant is reached.                                           *)

PairRuns == {"run_a", "run_b"}

PairDriver == "pair_driver"

\* what the second and the third source may return
OtherReadings == {F(20, 0), F(40, 0)}

\* a tick of run_a: the first source returns v
PairTickA ==
    /\ pc[PairDriver].at = "a"
    /\ \E v \in Readings : \E x, y \in OtherReadings :
          /\ UpdateWith(PairDriver, "run_a", <<v, x, y>>)
          /\ sources' = [sources EXCEPT !["run_a"] = <<v, x, y>>]
          /\ pc' = [pc EXCEPT ![PairDriver] = [at |-> "b", first |-> v]]
    /\ UNCHANGED <<warned, fsmVars, size_bits>>

\* the same tick of run_b: the first source returns what it returned in run_a
PairTickB ==
    /\ pc[PairDriver].at = "b"
    /\ \E x, y \in OtherReadings :
          /\ UpdateWith(PairDriver, "run_b", <<pc[PairDriver].first, x, y>>)
          /\ sources' = [sources EXCEPT !["run_b"] = <<pc[PairDriver].first, x, y>>]
    /\ pc' = [pc EXCEPT ![PairDriver] = [at |-> "a"]]
    /\ UNCHANGED <<warned, fsmVars, size_bits>>

InitPair ==
    /\ InitMachines(PairRuns)
    /\ pc = [t \in {PairDriver} |-> [at |-> "a"]]
    /\ status = [m \in PairRuns |-> [state |-> <<>>]]
    /\ warned = <<>>
    /\ accessed = [m \in PairRuns |-> {}]
    /\ sources = [m \in PairRuns |-> <<>>]
    /\ size_bits = WideBits
    /\ state_ = <<>>
    /\ sensor_data_ = <<>>
    /\ events = <<>>

NextPair ==
    \/ /\ Len(trace["run_a"]) < MaxPairTicks
       /\ PairTickA
    \/ PairTickB

SpecPair == InitPair /\ [][NextPair]_vars

-----------------------------------------------------------------------------
(* The variant FSM of main/cpp_variant.cpp *)

EvInit == [ev |-> "EvInit"]

EvTick == [ev |-> "EvTick"]

EvError(code) == [ev |-> "EvError", code |-> code]

Idle == [tag |-> "Idle", counter |-> 0]

Running(samples) == [tag |-> "Running", samples |-> samples]

Error(code) == [tag |-> "Error", code |-> code]

\* std::min(a, b) on int
IMin(a, b) == IF b < a THEN b ELSE a

\* std::max(a, b) on int
IMax(a, b) == IF a < b THEN b ELSE a

RECURSIVE MinmaxUpTo(_, _)
\* min and max after the loop of minmax_samples has passed element n (the
\* first element only initialises both)
MinmaxUpTo(s, n) ==
    IF n = 1
    THEN [min |-> s[1], max |-> s[1]]
    ELSE LET r == MinmaxUpTo(s, n - 1)
         IN  [min |-> IMin(r.min, s[n]), max |-> IMax(r.max, s[n])]

\* StateMachine::minmax_samples(s), s not empty
MinmaxSamples(s) == MinmaxUpTo(s, Len(s))

\* Overloaded with >= for >
OverloadedGe(max) == max >= 90

\* max > 90 in handle(Running&, const EvTick&)
Overloaded(max) == max > 90

\* Handle with a handler for EvError that enters Error{code}
HandleWithEvError(state, event, data) ==
    CASE state.tag = "Idle" /\ event.ev = "EvInit" -> Running(data)
      [] state.tag = "Running" /\ event.ev = "EvTick" ->
            LET mm == MinmaxSamples(state.samples)
            IN  IF Overloaded(mm.max) THEN Error(mm.max) ELSE state
      [] event.ev = "EvError" /\ state.tag # "Error" -> Error(event.code)
      [] OTHER -> state

\* The overload of handle chosen for (state, event) and what it leaves in
\* state_; data is sensor_data_.  The template overload ignores the event.
Handle(state, event, data) ==
    CASE state.tag = "Idle" /\ event.ev = "EvInit" -> Running(data)
      [] state.tag = "Running" /\ event.ev = "EvTick" ->
            LET mm == MinmaxSamples(state.samples)
            IN  IF Overloaded(mm.max) THEN Error(mm.max) ELSE state
      [] state.tag = "Error" /\ event.ev = "EvTick" -> state
      [] OTHER -> state

\* StateMachine::dispatch(event)
Dispatch(event) ==
    /\ state_' = Handle(state_, event, sensor_data_)
    /\ events' = Append(events, event)
    /\ UNCHANGED <<sensor_data_, sources, size_bits, smVars, ret, threadVars>>

\* sensor_samples of app_main
AppSamples == <<10, 20, 30, 40, 55, 60, 70, 95>>

\* the spans a StateMachine is constructed over: app_main's, and others with
\* the maximum first or last, at and around the overload threshold
SampleData == {AppSamples, <<95, 10>>, <<90, 10>>, <<10, 90>>, <<10, 91>>, <<50>>}

\* the events dispatched
Events == {EvInit, EvTick, EvError(7)}

InitFsm ==
    /\ InitMachines({})
    /\ pc = <<>>
    /\ status = <<>>
    /\ warned = <<>>
    /\ accessed = <<>>
    /\ sources = <<>>
    /\ size_bits = WideBits
    /\ state_ = Idle
    /\ sensor_data_ \in SampleData
    /\ events = <<>>

NextFsm ==
    \E e \in Events :
        /\ Len(events) < MaxEvents
        /\ Dispatch(e)

SpecFsm == InitFsm /\ [][NextFsm]_vars

-----------------------------------------------------------------------------
(* Properties of process_sensors, stated on the last call of each object:  *)
(* every prefix of a run is a reachable state, so a property of the last   *)
(* call in every reachable state is a property of every call.              *)

Objects == DOMAIN trace

Calls(m) == Len(trace[m])

\* current_state_ when the last process_sensors call on m started
Before(m) == IF Calls(m) > 1 THEN trace[m][Calls(m) - 1] ELSE IdleState

\* current_state_ when the last process_sensors call on m returned
After(m) == trace[m][Calls(m)]

\* the reading the last process_sensors call on m pushed
LastReading(m) == pushed[m][Len(pushed[m])]

VariantChanges ==
    {<<"Idle", "Monitoring">>, <<"Monitoring", "Alert">>,
     <<"Alert", "Calibrating">>, <<"Calibrating", "Idle">>}

\* C1: every process_sensors call makes at most one transition_to call, the
\* alternative whose rule ran is the one current_state_ held when the call
\* started, and every change of variant over the whole run is one of
\* Idle->Monitoring, Monitoring->Alert, Alert->Calibrating, Calibrating->Idle.
C1_OneRulePerCall ==
    \A m \in Objects :
        Calls(m) > 0 =>
            /\ Len(visited[m].transitions) <= 1
            /\ visited[m].updated.tag = Before(m).tag
            /\ After(m) = current_state_[m]
            /\ \A k \in 1 .. Calls(m) :
                  LET from == IF k = 1 THEN "Idle" ELSE trace[m][k - 1].tag
                      to   == trace[m][k].tag
                  IN  from # to => <<from, to>> \in VariantChanges

\* C1 witness: a reading of 40.0 in Idle has put the machine in Monitoring
\* (not Alert), and later calls have taken it through every variant change.
C1_Witness ==
    /\ Calls(SM) >= 8
    /\ pushed[SM][1] = F(40, 0)
    /\ trace[SM][1].tag = "Monitoring"
    /\ \E k \in 2 .. Calls(SM) : trace[SM][k].tag = "Alert"
    /\ \E k \in 2 .. Calls(SM) : trace[SM][k].tag = "Calibrating"
    /\ After(SM).tag = "Idle"

\* C2: a call that starts in Idle ends in Monitoring{reading, 1} when the
\* reading is strictly greater than 20.0 and ends in Idle otherwise
\* (a reading of exactly 20.0 included).
C2_IdleRule ==
    \A m \in Objects :
        (Calls(m) > 0 /\ Before(m).tag = "Idle") =>
            IF LastReading(m) > 20 * Scale
            THEN After(m) = [tag |-> "Monitoring",
                             average_value |-> LastReading(m),
                             sample_count |-> 1]
            ELSE After(m) = [tag |-> "Idle"]

\* C2 witness: a reading of exactly 20.0 left the machine Idle and the next
\* reading, above 20.0, moved it to Monitoring.
C2_Witness ==
    /\ Calls(SM) = 2
    /\ pushed[SM] = <<F(20, 0), F(25, 0)>>
    /\ trace[SM][1].tag = "Idle"
    /\ After(SM).tag = "Monitoring"

\* the readings held by the first min(pushes, 10) slots of m's buffer
ActiveSlots(m) ==
    {i \in Slots : i < (IF Len(pushed[m]) < 10 THEN Len(pushed[m]) ELSE 10)}

RECURSIVE SumOver(_, _)
SumOver(f, S) ==
    IF S = {} THEN 0
    ELSE LET i == CHOOSE j \in S : TRUE IN f[i] + SumOver(f, S \ {i})

\* sum of the active buffer entries divided by the active count
ActiveAverage(m) ==
    SumOver(sensor_buffer_[m], ActiveSlots(m)) \div Cardinality(ActiveSlots(m))

\* C3: a call that starts in Monitoring adds one to sample_count and sets
\* average_value to the sum of the active buffer entries (the reading just
\* pushed included) divided by min(pushes, 10); it ends in
\* Alert{"Temperature High", 30.0} when that average is strictly greater
\* than 30.0 and otherwise in Monitoring with the updated fields.
C3_MonitoringRule ==
    \A m \in Objects :
        (Calls(m) > 0 /\ Before(m).tag = "Monitoring") =>
            LET upd == [tag |-> "Monitoring",
                        average_value |-> ActiveAverage(m),
                        sample_count |-> Before(m).sample_count + 1]
            IN  /\ visited[m].updated = upd
                /\ IF ActiveAverage(m) > 30 * Scale
                   THEN After(m) = [tag |-> "Alert",
                                    message |-> "Temperature High",
                                    threshold |-> 30 * Scale]
                   ELSE After(m) = upd

\* C3 witness: the machine is still in Monitoring after more than 10 pushes;
\* earlier a call left the average at exactly 30.0 without an Alert, and
\* another moved Monitoring to Alert.
C3_Witness ==
    /\ Calls(SM) > 10
    /\ Before(SM).tag = "Monitoring"
    /\ After(SM).tag = "Monitoring"
    /\ \E k \in 2 .. Calls(SM) :
          /\ trace[SM][k].tag = "Monitoring"
          /\ trace[SM][k].average_value = 30 * Scale
    /\ \E k \in 2 .. Calls(SM) :
          trace[SM][k - 1].tag = "Monitoring" /\ trace[SM][k].tag = "Alert"

\* C4: a call that starts in Alert ends in Calibrating{22.5, 1} when the
\* reading is strictly less than 25.0, whatever the buffer average, and
\* otherwise leaves the Alert state, message and threshold as they were.
C4_AlertRule ==
    \A m \in Objects :
        (Calls(m) > 0 /\ Before(m).tag = "Alert") =>
            IF LastReading(m) < 25 * Scale
            THEN After(m) = [tag |-> "Calibrating",
                             reference_value |-> (45 * Scale) \div 2,
                             calibration_step |-> 1]
            ELSE After(m) = Before(m)

\* C4 witness: in Alert a reading of exactly 25.0 left the machine in Alert,
\* and the next reading, 20.0, moved it to Calibrating while the buffer
\* average was still above 25.0.
C4_Witness ==
    /\ Calls(SM) >= 4
    /\ trace[SM][Calls(SM) - 2].tag = "Alert"
    /\ pushed[SM][Calls(SM) - 1] = F(25, 0)
    /\ Before(SM).tag = "Alert"
    /\ LastReading(SM) = F(20, 0)
    /\ After(SM).tag = "Calibrating"
    /\ ActiveAverage(SM) > 25 * Scale

\* the calls that entered Calibrating
CalibrationEntries(m) ==
    {k \in 2 .. Calls(m) :
        trace[m][k].tag = "Calibrating" /\ trace[m][k - 1].tag # "Calibrating"}

\* C5: after the call that enters Calibrating (step 1), the machine is in
\* Calibrating with step 1+i after each of the next i = 1..4 calls and in
\* Idle after the fifth, whatever the readings.
C5_CalibrationCountdown ==
    \A m \in Objects :
        \A k \in CalibrationEntries(m) :
            /\ trace[m][k].calibration_step = 1
            /\ \A i \in 1 .. 4 :
                  k + i <= Calls(m) =>
                      trace[m][k + i] = [tag |-> "Calibrating",
                                         reference_value |-> (45 * Scale) \div 2,
                                         calibration_step |-> 1 + i]
            /\ k + 5 <= Calls(m) => trace[m][k + 5] = [tag |-> "Idle"]

\* C5 witness: a calibration has run its five calls, with differing
\* readings among them, and the machine is back in Idle.
C5_Witness ==
    \E k \in CalibrationEntries(SM) :
        /\ Calls(SM) = k + 5
        /\ After(SM).tag = "Idle"
        /\ \E i, j \in 1 .. 5 : pushed[SM][k + i] # pushed[SM][k + j]

\* C6: after m process_sensors calls the push count is m, the active count
\* is min(m, 10), the k-th reading was written to slot (k-1) mod 10, and the
\* buffer holds exactly the most recent min(m, 10) readings (slots never
\* written still hold the initial 0.0).
C6_RingBuffer ==
    \A m \in Objects :
        LET n == Len(pushed[m])
        IN  /\ n = Calls(m)
            /\ buffer_index_[m] = n
            /\ ActiveCount(buffer_index_[m]) = (IF n < 10 THEN n ELSE 10)
            /\ \A k \in 1 .. n :
                  k > n - 10 => sensor_buffer_[m][(k - 1) % 10] = pushed[m][k]
            /\ \A i \in 0 .. 9 : i >= n => sensor_buffer_[m][i] = 0

\* C6 witness: more than 10 readings were pushed and the eleventh
\* overwrote a different first one in slot 0.
C6_Witness ==
    /\ Len(pushed[SM]) > 10
    /\ pushed[SM][1] # pushed[SM][11]
    /\ sensor_buffer_[SM][0] = pushed[SM][11]
    /\ sensor_buffer_[SM][1] = pushed[SM][2]

\* C7: whenever the machine is in Monitoring after a process_sensors call,
\* the call that entered Monitoring included, average_value is the average
\* of the buffer's active entries.
C7_AverageTracksBuffer ==
    \A m \in Objects :
        (Calls(m) > 0 /\ current_state_[m].tag = "Monitoring") =>
            current_state_[m].average_value = ActiveAverage(m)

\* C8: get_buffer_stats on a machine whose buffer has received no push
\* raises EmptyBufferError and returns no (min, max) value.
C8_EmptyStatsRaise ==
    \A m \in Objects :
        (ret[m].call = "get_buffer_stats" /\ Len(pushed[m]) = 0) =>
            ret[m].result.kind = "EmptyBufferError"

\* the fields of manager m's StateMachine
MachineOf(m) ==
    <<current_state_[m], current_id_[m], sensor_buffer_[m], buffer_index_[m]>>

\* C10: under every interleaving of the driver threads no manager is ever
\* called by two different threads, and a step that changes the state,
\* buffer or push count of one manager's StateMachine leaves those of every
\* other manager unchanged.
C10_ManagersIsolated ==
    /\ [](\A m \in DOMAIN accessed : Cardinality(accessed[m]) <= 1)
    /\ [][\A m1, m2 \in DOMAIN accessed :
            (m1 # m2 /\ MachineOf(m1)' # MachineOf(m1))
                => (MachineOf(m2)' = MachineOf(m2) /\ pushed'[m2] = pushed[m2])]_vars

\* C10 witness: all five managers have been updated, each by one thread, the
\* two monitor threads' managers with different readings.
C10_Witness ==
    /\ \A m \in DOMAIN accessed : Cardinality(accessed[m]) = 1 /\ Len(pushed[m]) > 0
    /\ Cardinality(DOMAIN accessed) = 5
    /\ pushed["manager_1"] # pushed["manager_2"]
    /\ current_state_["manager_1"] # current_state_["manager_2"]

\* C11: update() takes one reading from each of the three sources and only
\* the first reaches the state machine: each update() adds exactly one
\* sample, the first source's reading, to the buffer, and two runs whose
\* first-source readings agree tick by tick have the same state, id, buffer,
\* push count, buffer statistics and status line after every tick, whatever
\* the other two sources returned.
C11_OnlyFirstSource ==
    /\ \A m \in DOMAIN sources :
          /\ Len(pushed[m]) = Calls(m)
          /\ buffer_index_[m] = Calls(m)
          /\ Calls(m) > 0 =>
                /\ Len(sources[m]) = 3
                /\ LastReading(m) = sources[m][1]
                /\ sensor_buffer_[m][(Calls(m) - 1) % 10] = sources[m][1]
    /\ \A a, b \in DOMAIN sources :
          Calls(a) = Calls(b) =>
              /\ MachineOf(a) = MachineOf(b)
              /\ pushed[a] = pushed[b]
              /\ trace[a] = trace[b]
              /\ ret[a] = ret[b]
              /\ status[a] = status[b]

\* C11 witness: after four ticks each the two runs are in Calibrating, and in
\* the last tick their second and third sources returned different values.
C11_Witness ==
    /\ Calls("run_a") = 4
    /\ Calls("run_b") = 4
    /\ sources["run_a"][2] # sources["run_b"][2]
    /\ sources["run_a"][3] # sources["run_b"][3]
    /\ sources["run_a"][1] # sources["run_a"][2]
    /\ current_state_["run_b"].tag = "Calibrating"
    /\ ret["run_a"].result.min # ret["run_a"].result.max

\* C14: a process_sensors call whose reading is NaN leaves Idle in Idle and
\* Alert in the same Alert, and leaves Monitoring in Monitoring with a NaN
\* average; and while an active buffer entry is NaN, no call moves
\* Monitoring to Alert, whatever its reading.
C14_NaNNeverTriggers ==
    \A m \in Objects :
        Calls(m) > 0 =>
            /\ IsNaN(LastReading(m)) =>
                  /\ Before(m).tag = "Idle" => After(m) = Before(m)
                  /\ Before(m).tag = "Alert" => After(m) = Before(m)
                  /\ Before(m).tag = "Monitoring" =>
                        /\ After(m).tag = "Monitoring"
                        /\ IsNaN(After(m).average_value)
            /\ (\E i \in ActiveSlots(m) : IsNaN(sensor_buffer_[m][i])) =>
                  ~(Before(m).tag = "Monitoring" /\ After(m).tag = "Alert")

\* C14 witness: two readings of 40.0 have raised Alert, and a NaN reading
\* processed in Alert has left it standing.
C14_Witness ==
    /\ pushed[SM] = <<F(40, 0), F(40, 0), NaN>>
    /\ Before(SM).tag = "Alert"
    /\ After(SM) = Before(SM)

\* C15: current_id_, which get_current_state_id() returns, always names the
\* variant held; a machine on which nothing was called is Idle with id IDLE,
\* a zeroed buffer and no pushes; and a call after which another variant is
\* held made a transition_to call with the state now held.
C15_IdNamesVariant ==
    \A m \in Objects :
        /\ <<current_state_[m].tag, current_id_[m]>> \in
              {<<"Idle", "IDLE">>, <<"Monitoring", "MONITORING">>,
               <<"Alert", "ALERT">>, <<"Calibrating", "CALIBRATING">>}
        /\ Calls(m) = 0 =>
              /\ current_state_[m] = [tag |-> "Idle"]
              /\ current_id_[m] = "IDLE"
              /\ buffer_index_[m] = 0
              /\ \A i \in Slots : sensor_buffer_[m][i] = 0
        /\ (Calls(m) > 0 /\ After(m).tag # Before(m).tag) =>
              /\ Len(visited[m].transitions) > 0
              /\ visited[m].transitions[Len(visited[m].transitions)] = After(m)
              /\ current_state_[m] = After(m)

\* C15 witness: the last call took the machine from Alert to Calibrating,
\* and the id reads CALIBRATING.
C15_Witness ==
    /\ Calls(SM) > 0
    /\ Before(SM).tag = "Alert"
    /\ current_state_[SM].tag = "Calibrating"
    /\ current_id_[SM] = "CALIBRATING"

\* the values in the active entries of m's buffer
ActiveValues(m) == {sensor_buffer_[m][i] : i \in ActiveSlots(m)}

\* C16: after an update() the pair get_buffer_stats returned is the least
\* and the greatest of the values in the first min(pushes, 10) slots, which
\* are the min(pushes, 10) most recent readings, and the occupancy in the
\* status line is min(pushes, 10).
C16_StatsOverActiveEntries ==
    \A m \in DOMAIN status :
        Calls(m) > 0 =>
            LET n == Len(pushed[m])
                occ == IF n < 10 THEN n ELSE 10
                st == ret[m].result
            IN  /\ ret[m].call = "get_buffer_stats"
                /\ st.kind = "value"
                /\ ActiveValues(m) = {pushed[m][i] : i \in (n - occ + 1) .. n}
                /\ st.min \in ActiveValues(m)
                /\ st.max \in ActiveValues(m)
                /\ \A x \in ActiveValues(m) : st.min <= x /\ x <= st.max
                /\ status[m].samples = occ

\* C16 witness: twelve updates, the first two readings 23.50 overwritten
\* by later ones, so that the minimum reported is 24.49 and the occupancy 10.
C16_Witness ==
    /\ Calls(OneManager) = 12
    /\ pushed[OneManager][1] = F(23, 50)
    /\ pushed[OneManager][2] = F(23, 50)
    /\ ret[OneManager].result.min = F(24, 49)
    /\ status[OneManager].samples = 10

\* C17: the status an update() reports describes the state its
\* process_sensors call left (not the one it found) and a buffer that holds
\* the reading of this tick, and all ticks of a manager come from one thread,
\* one after the other.
C17_ReportAfterTransition ==
    \A m \in DOMAIN status :
        /\ Cardinality(accessed[m]) <= 1
        /\ Calls(m) > 0 =>
              /\ current_state_[m] = After(m)
              /\ status[m].state = GetStateInfo(After(m))
              /\ status[m].state # GetStateInfo(Before(m))
              /\ status[m].samples = (IF Calls(m) < 10 THEN Calls(m) ELSE 10)
              /\ LastReading(m) \in ActiveValues(m)
              /\ ret[m].result.min <= LastReading(m)
              /\ LastReading(m) <= ret[m].result.max
              /\ status[m].min <= Fmt(LastReading(m), 1)
              /\ Fmt(LastReading(m), 1) <= status[m].max

\* C17 witness: the first manager of sensor_processor_thread has been
\* updated twice and a monitor thread's manager once; the latter's status
\* already reads Monitoring with one sample.
C17_Witness ==
    /\ Calls(VectorManagers[1]) = 2
    /\ status[VectorManagers[1]].samples = 2
    /\ \E t \in MonitorThreads :
          /\ Calls(LocalManager(t)) = 1
          /\ Before(LocalManager(t)).tag = "Idle"
          /\ status[LocalManager(t)].state[1] = "Monitoring - Avg: {:.2f}, Samples: {}"
          /\ status[LocalManager(t)].samples = 1

\* update() calls made on the i-th manager of sensor_processor_thread
VectorCalls(i) == Calls(VectorManagers[i])

C19_AlwaysMonitoring ==
    /\ \A m \in DOMAIN status :
          /\ \A i \in 1 .. Calls(m) :
                /\ F(23, 50) <= pushed[m][i] /\ pushed[m][i] <= F(24, 49)
                /\ trace[m][i].tag = "Monitoring"
                /\ trace[m][i].sample_count = i
          /\ Calls(m) = 0 => current_state_[m].tag = "Idle"
          /\ Calls(m) > 0 =>
                /\ current_state_[m].tag = "Monitoring"
                /\ current_id_[m] = "MONITORING"
                /\ current_state_[m].average_value <= F(24, 49)
    /\ \A t \in DOMAIN warned : ~warned[t]

\* C19 witness: twelve updates, all of them with the largest reading 24.49,
\* and the thread is back at its ALERT check, which has never fired.
C19_Witness ==
    /\ Calls(OneManager) = 12
    /\ \A i \in 1 .. 12 : pushed[OneManager][i] = F(24, 49)
    /\ current_state_[OneManager].tag = "Monitoring"
    /\ pc[ManagerCaller].at = "update"
    /\ ~warned[ManagerCaller]

\* C21: between process_sensors calls, a machine in Calibrating has
\* reference_value 22.5 and a calibration_step from 1 to 5, a machine in
\* Alert has threshold 30.0 and message "Temperature High", and a machine in
\* Monitoring has a sample_count of at least 1.
C21_FieldInvariants ==
    \A m \in Objects :
        LET state == current_state_[m]
        IN  /\ state.tag = "Calibrating" =>
                  /\ 2 * state.reference_value = 45 * Scale
                  /\ 1 <= state.calibration_step
                  /\ state.calibration_step <= 5
            /\ state.tag = "Alert" =>
                  /\ state.threshold = 30 * Scale
                  /\ state.message = "Temperature High"
            /\ state.tag = "Monitoring" => state.sample_count >= 1

\* C21 witness: the machine has passed through Monitoring and Alert and is
\* in Calibrating at its last step, 5.
C21_Witness ==
    /\ current_state_[SM].tag = "Calibrating"
    /\ current_state_[SM].calibration_step = 5
    /\ \E i, j \in 1 .. Calls(SM) :
          /\ i < j
          /\ trace[SM][i].tag = "Monitoring" /\ trace[SM][i].sample_count >= 1
          /\ trace[SM][j].tag = "Alert"

\* C22: with buffer_index_ a fixed-width unsigned counter, every
\* process_sensors call leaves the occupancy min(buffer_index_, 10) at least
\* what it was, moves the slot the next push writes on by one modulo 10, and,
\* when it computes the Monitoring average, divides by an occupancy of at
\* least 1.
C22_CounterNeverWraps ==
    [][\A m \in Objects :
          trace'[m] # trace[m] =>
              LET old == buffer_index_[m]
                  new == buffer_index_'[m]
                  occupancy(i) == IF i < 10 THEN i ELSE 10
              IN  /\ occupancy(new) >= occupancy(old)
                  /\ new % 10 = ((old % 10) + 1) % 10
                  /\ current_state_[m].tag = "Monitoring" => occupancy(new) >= 1]_vars

-----------------------------------------------------------------------------
(* The cycle of the sensor state machine *)

\* the fields of object m as a record
FieldsOf(m) ==
    [current_state_ |-> current_state_[m], current_id_ |-> current_id_[m],
     sensor_buffer_ |-> sensor_buffer_[m], buffer_index_ |-> buffer_index_[m]]

\* a reading that drives the machine onwards from `state`: above the Idle
\* and Monitoring thresholds, below the Alert threshold
OnwardReading(state) ==
    IF state.tag \in {"Idle", "Monitoring"} THEN F(40, 0) ELSE F(20, 0)

RECURSIVE OnwardTags(_, _)
\* the variants held after each of n further calls of process_sensors on
\* `mach`, every call given the onward reading of the state it starts in
OnwardTags(mach, n) ==
    IF n = 0
    THEN <<>>
    ELSE LET nx == ProcessSensorsOn(mach, <<OnwardReading(mach.current_state_)>>).machine
         IN  <<nx.current_state_.tag>> \o OnwardTags(nx, n - 1)

\* calls within which the onward readings leave any variant
LeaveWithin == 11

\* calls within which the onward readings lead through the cycle to Idle
CycleWithin == 19

\* C13: from every reachable state there are finitely many readings that
\* make the machine leave the variant it holds, and finitely many that bring
\* it to Idle again, through Monitoring, Alert and Calibrating when it
\* starts in Idle.
C13_NoTerminalState ==
    \A m \in Objects :
        LET tags == OnwardTags(FieldsOf(m), CycleWithin)
            here == current_state_[m].tag
        IN  /\ \E k \in 1 .. LeaveWithin : tags[k] # here
            /\ \E k \in 1 .. CycleWithin :
                  /\ tags[k] = "Idle"
                  /\ here = "Idle" =>
                        \E i, j, l \in 1 .. k :
                            /\ i < j /\ j < l
                            /\ tags[i] = "Monitoring"
                            /\ tags[j] = "Alert"
                            /\ tags[l] = "Calibrating"

\* C13 witness: the machine has gone round the whole cycle once and is in
\* Idle again, from where the onward readings take it to Monitoring.
C13_Witness ==
    /\ Calls(SM) = 9
    /\ current_state_[SM].tag = "Idle"
    /\ \E i \in 1 .. 9 : trace[SM][i].tag = "Calibrating"
    /\ OnwardTags(FieldsOf(SM), 1) = <<"Monitoring">>

-----------------------------------------------------------------------------
(* Properties of the variant FSM of cpp_variant.cpp *)

\* the event of the dispatch that leads to the next state
Dispatched == events'[Len(events')]

\* C12: a dispatch changes state_ only for (Idle, EvInit) and
\* (Running, EvTick); EvTick in Idle, EvInit in Running or Error and EvError
\* in any state leave state_ as it was.
C12_DefaultIgnore ==
    [][(events' # events) =>
          /\ state_' # state_ =>
                \/ state_.tag = "Idle" /\ Dispatched.ev = "EvInit"
                \/ state_.tag = "Running" /\ Dispatched.ev = "EvTick"
          /\ (state_.tag = "Idle" /\ Dispatched.ev = "EvTick") => state_' = state_
          /\ (state_.tag \in {"Running", "Error"} /\ Dispatched.ev = "EvInit")
                => state_' = state_
          /\ Dispatched.ev = "EvError" => state_' = state_]_vars

\* C12 witness: Idle has ignored EvTick and EvError, EvInit has started
\* Running, and Running has ignored EvInit.
C12_Witness ==
    /\ events = <<EvTick, EvError(7), EvInit, EvInit>>
    /\ state_.tag = "Running"

\* the largest element of a sequence of integers
MaxOf(s) == CHOOSE x \in {s[i] : i \in 1 .. Len(s)} :
                \A i \in 1 .. Len(s) : s[i] <= x

\* C20: EvTick in Running enters Error{code = largest sample} when the
\* largest sample is strictly greater than 90 and otherwise leaves Running
\* as it is; a machine in Error stays in Error with the same code under
\* every event.
C20_OverloadAndAbsorbingError ==
    [][(events' # events) =>
          /\ (state_.tag = "Running" /\ Dispatched.ev = "EvTick") =>
                /\ state_.samples = sensor_data_
                /\ state_' = IF MaxOf(sensor_data_) > 90
                             THEN [tag |-> "Error", code |-> MaxOf(sensor_data_)]
                             ELSE state_
          /\ state_.tag = "Error" => state_' = state_]_vars

\* C20 witness: app_main's samples have put the machine in Error{95}, and
\* EvInit and EvError dispatched since have left it there.
C20_Witness ==
    /\ sensor_data_ = AppSamples
    /\ events = <<EvInit, EvTick, EvInit, EvError(7)>>
    /\ state_ = [tag |-> "Error", code |-> 95]

====
